---- MODULE Spec2Model ----
(***************************************************************************)
(* Model of the DtoFrom derive macro (src/lib.rs).                         *)
(*                                                                         *)
(* One invocation of dto_from_derive is modelled: the derive input (the    *)
(* struct-level attributes, the shape of the item and the fields with      *)
(* their attributes) is drawn in Init, and the actions follow the body of  *)
(* dto_from_derive: find_source_type, the selection of the named fields,   *)
(* one step of the field_map iterator per field, and the final quote!.     *)
(* A last action calls the emitted `from` on a value of the source type.   *)
(*                                                                         *)
(* Strings that the macro inspects (rename literals, identifiers, paths)   *)
(* are sequences of one-character strings, so that trim() and the          *)
(* identifier check of Ident::new are computed and not assumed.            *)
(***************************************************************************)
EXTENDS Naturals, Sequences, FiniteSets

(***************************************************************************)
(* Bounds of the checked input space.                                      *)
(***************************************************************************)
MaxAttrs == 2        \* attributes on one field, or on the struct
MaxKeys == 3         \* keys in the dto attributes of one field (usual values)
MaxKeysWide == 2     \* keys in the dto attributes of one field (all values)
MaxStructKeys == 3   \* keys in the struct-level dto attributes
MaxFields == 2       \* fields of an input with several fields
MaxLen == 2          \* elements of a collection held by a source value

(***************************************************************************)
(* Syntax of the derive input.                                             *)
(***************************************************************************)
Names == <<"a", "b", "c", "d", "e">>

\* the identifier of the i-th declared field: field names of a struct are distinct
FieldIdent(i) == <<Names[i]>>

\* a nested meta item `key` or `key = val`
Meta(k, v) == [key |-> k, val |-> v]

\* an attribute `#[path(items)]`
Attr(p, its) == [path |-> p, items |-> its]

\* a named field with its attributes
Field(id, as) == [ident |-> id, attrs |-> as]

\* the usual meta items of field-level dto attributes
CoreItems ==
    {Meta("rename", <<"b">>), Meta("rename", <<>>), Meta("transform_fn", <<"f">>),
     Meta("skip", <<>>), Meta("into", <<>>), Meta("bogus", <<>>)}

\* all meta items of field-level dto attributes: more rename literals (the field's
\* own name, blanks only, a blank before a name), another function, the struct key
WideItems ==
    CoreItems
        \cup {Meta("rename", <<"a">>), Meta("rename", <<" ">>), Meta("rename", <<" ", "b">>),
              Meta("transform_fn", <<"g">>), Meta("from", <<"A">>)}

\* the meta items written in struct-level dto attributes
StructItems ==
    {Meta("from", <<"A">>), Meta("from", <<"B">>), Meta("rename", <<"a">>),
     Meta("transform_fn", <<"f">>), Meta("skip", <<>>), Meta("into", <<>>),
     Meta("bogus", <<>>)}

\* an attribute of another macro (path not `dto`) sitting next to the dto ones
OtherAttr == Attr("serde", <<Meta("skip", <<>>), Meta("bogus", <<>>), Meta("from", <<"B">>)>>)

Shapes == {"named", "tuple", "unit", "enum", "union"}

\* how the keys of one field (or of the struct) are laid out over its attributes:
\* a sequence of at most n attributes, each either the attribute of another macro
\* or a dto attribute with its number of keys, at most k keys in all
LayOther == [other |-> TRUE, keys |-> 0]
LayDto(m) == [other |-> FALSE, keys |-> m]

RECURSIVE Layouts(_, _)
Layouts(n, k) ==
    IF n = 0 THEN {<<>>}
    ELSE {<<>>}
         \cup {<<LayOther>> \o rest : rest \in Layouts(n - 1, k)}
         \cup UNION {{<<LayDto(m)>> \o rest : rest \in Layouts(n - 1, k - m)} : m \in 0..k}

RECURSIVE TotalKeys(_)
TotalKeys(lay) == IF lay = <<>> THEN 0 ELSE Head(lay).keys + TotalKeys(Tail(lay))

\* the attribute list with layout lay and the keys its, in the order written
RECURSIVE AttrsFrom(_, _)
AttrsFrom(lay, its) ==
    IF lay = <<>> THEN <<>>
    ELSE IF Head(lay).other THEN <<OtherAttr>> \o AttrsFrom(Tail(lay), its)
    ELSE <<Attr("dto", SubSeq(its, 1, Head(lay).keys))>>
             \o AttrsFrom(Tail(lay), SubSeq(its, Head(lay).keys + 1, Len(its)))

\* the attribute lists of fields as the tests and examples write them, and one
\* field of each kind of mistake
FieldTemplates ==
    {<<>>,
     <<Attr("dto", <<Meta("rename", <<"b">>)>>)>>,
     <<Attr("dto", <<Meta("rename", <<"b">>), Meta("transform_fn", <<"f">>)>>)>>,
     <<Attr("dto", <<Meta("rename", <<"b">>), Meta("into", <<>>)>>)>>,
     <<Attr("dto", <<Meta("transform_fn", <<"f">>)>>)>>,
     <<Attr("dto", <<Meta("skip", <<>>)>>)>>,
     <<Attr("dto", <<Meta("into", <<>>)>>)>>,
     <<Attr("dto", <<Meta("skip", <<>>), Meta("into", <<>>)>>)>>,
     <<Attr("dto", <<Meta("bogus", <<>>)>>)>>}

DeriveInput(as, sh, fs) == [attrs |-> as, shape |-> sh, fields |-> fs]

ValidFrom == <<Attr("dto", <<Meta("from", <<"A">>)>>)>>

\* an input that exercises the struct level: any struct attributes and any shape
IsStructInput(inp) ==
    \E lay \in Layouts(MaxAttrs, MaxStructKeys), sh \in Shapes :
        \E its \in [1..TotalKeys(lay) -> StructItems] :
            inp = DeriveInput(AttrsFrom(lay, its), sh, <<Field(FieldIdent(1), <<>>)>>)

\* an input that exercises one field: a valid struct level and one field with any
\* attributes
IsFieldInput(inp, Items, k) ==
    \E lay \in Layouts(MaxAttrs, k) :
        \E its \in [1..TotalKeys(lay) -> Items] :
            inp = DeriveInput(ValidFrom, "named", <<Field(FieldIdent(1), AttrsFrom(lay, its))>>)

\* an input with several fields
IsMultiInput(inp) ==
    \E n \in 0..MaxFields :
        \E t \in [1..n -> FieldTemplates] :
            inp = DeriveInput(ValidFrom, "named", [i \in 1..n |-> Field(FieldIdent(i), t[i])])

(***************************************************************************)
(* Values of the macro: Option, spans, errors.                             *)
(***************************************************************************)
None == <<>>
Some(x) == <<x>>
IsSome(o) == Len(o) > 0

\* a span is the kind of token it covers and where that token sits:
\* <<"lit" or "path", attribute index, item index>>, the identifier of a field,
\* or Span::call_site() (the whole derive invocation)
LitSpan(a, i) == <<"lit", a, i>>
PathSpan(a, i) == <<"path", a, i>>
IdentSpan == <<"ident", 0, 0>>
CallSite == <<"call_site", 0, 0>>

\* the diagnostics of the macro; the backquote of the source text is written as a quote
MsgEmptyRename == "'rename' cannot be empty"
MsgDupRename == "duplicate 'rename'"
MsgDupTransform == "duplicate 'transform_fn'"
MsgDupSkip == "duplicate 'skip'"
MsgDupInto == "duplicate 'into'"
MsgUnknownKey == "unknown #[dto(...)] key; expected one of: rename, transform_fn, skip, into"
MsgSkipConflict == "'#[dto(skip)]' cannot be combined with 'rename', 'transform_fn', or 'into'"
MsgTransformInto == "'#[dto(transform_fn = ...)]' conflicts with '#[dto(into)]'"
MsgDupFrom == "duplicate 'from' on struct"
MsgUnknownStructKey == "unknown struct-level #[dto(...)] key; expected 'from'"
MsgMissingFrom == "Expected '#[dto(from = Type)]' on the struct."
MsgNotNamed == "DtoFrom only supports named-field structs."
MsgNotStruct == "DtoFrom only supports structs."

(***************************************************************************)
(* String helpers of the standard library and of proc_macro2.              *)
(***************************************************************************)
IsWhite(c) == c = " "

RECURSIVE TrimStart(_)
TrimStart(s) ==
    IF s = <<>> THEN <<>>
    ELSE IF IsWhite(Head(s)) THEN TrimStart(Tail(s)) ELSE s

RECURSIVE TrimEnd(_)
TrimEnd(s) ==
    IF s = <<>> THEN <<>>
    ELSE IF IsWhite(s[Len(s)]) THEN TrimEnd(SubSeq(s, 1, Len(s) - 1)) ELSE s

\* str::trim
Trim(s) == TrimEnd(TrimStart(s))

\* Ident::new panics unless the string is a legal identifier
IsLegalIdent(s) == s # <<>> /\ \A j \in 1..Len(s) : ~IsWhite(s[j])

(***************************************************************************)
(* struct FieldAttrs, enum FieldAction, fn decide_action.                  *)
(***************************************************************************)
FieldAttrsDefault ==
    [rename |-> None, rename_span |-> None, transform_fn |-> None,
     skip |-> FALSE, into_flag |-> FALSE]

FieldAction(k, f) == [kind |-> k, f |-> f]

decide_action(a) ==
    IF a.skip THEN FieldAction("Skip", <<>>)
    ELSE IF IsSome(a.transform_fn) THEN FieldAction("Transform", a.transform_fn[1])
    ELSE IF a.into_flag THEN FieldAction("Into", <<>>)
    ELSE FieldAction("Direct", <<>>)

(***************************************************************************)
(* fn extract_dto_field_attrs.                                             *)
(***************************************************************************)
\* the locals of extract_dto_field_attrs, with the outcome of the scan so far
ScanStart ==
    [cfg |-> FieldAttrsDefault, seen_rename |-> FALSE, seen_transform |-> FALSE,
     seen_skip |-> FALSE, seen_into |-> FALSE, kind |-> "ok", msg |-> "", span |-> CallSite]

ScanErr(st, m, sp) == [st EXCEPT !.kind = "error", !.msg = m, !.span = sp]

ScanPanic(st) == [st EXCEPT !.kind = "panic", !.msg = "", !.span = CallSite]

\* the arms of the closure handed to parse_nested_meta, for item i of attribute a
\* RenameArm with the duplicate test made before the emptiness test
RenameArm_DupBeforeEmpty(st, meta, a, i) ==
    IF st.seen_rename THEN ScanErr(st, MsgDupRename, LitSpan(a, i))
    ELSE IF Trim(meta.val) = <<>> THEN ScanErr(st, MsgEmptyRename, LitSpan(a, i))
    ELSE IF ~IsLegalIdent(meta.val) THEN ScanPanic(st)
    ELSE [st EXCEPT !.seen_rename = TRUE,
                    !.cfg.rename_span = Some(LitSpan(a, i)),
                    !.cfg.rename = Some(meta.val)]

\* RenameArm that takes a second rename with the same value as no duplicate
RenameArm_SameValueAllowed(st, meta, a, i) ==
    IF Trim(meta.val) = <<>> THEN ScanErr(st, MsgEmptyRename, LitSpan(a, i))
    ELSE IF st.seen_rename /\ st.cfg.rename # Some(meta.val)
        THEN ScanErr(st, MsgDupRename, LitSpan(a, i))
    ELSE IF ~IsLegalIdent(meta.val) THEN ScanPanic(st)
    ELSE [st EXCEPT !.seen_rename = TRUE,
                    !.cfg.rename_span = Some(LitSpan(a, i)),
                    !.cfg.rename = Some(meta.val)]

RenameArm(st, meta, a, i) ==
    IF Trim(meta.val) = <<>> THEN ScanErr(st, MsgEmptyRename, LitSpan(a, i))
    ELSE IF st.seen_rename THEN ScanErr(st, MsgDupRename, LitSpan(a, i))
    ELSE IF ~IsLegalIdent(meta.val) THEN ScanPanic(st)
    ELSE [st EXCEPT !.seen_rename = TRUE,
                    !.cfg.rename_span = Some(LitSpan(a, i)),
                    !.cfg.rename = Some(meta.val)]

TransformArm(st, meta, a, i) ==
    IF st.seen_transform THEN ScanErr(st, MsgDupTransform, PathSpan(a, i))
    ELSE [st EXCEPT !.seen_transform = TRUE, !.cfg.transform_fn = Some(meta.val)]

SkipArm(st, meta, a, i) ==
    IF st.seen_skip THEN ScanErr(st, MsgDupSkip, PathSpan(a, i))
    ELSE [st EXCEPT !.seen_skip = TRUE, !.cfg.skip = TRUE]

IntoArm(st, meta, a, i) ==
    IF st.seen_into THEN ScanErr(st, MsgDupInto, PathSpan(a, i))
    ELSE [st EXCEPT !.seen_into = TRUE, !.cfg.into_flag = TRUE]

UnknownKeyArm(st, meta, a, i) == ScanErr(st, MsgUnknownKey, PathSpan(a, i))

\* the closure handed to parse_nested_meta, applied to item i of attribute a
FieldMetaLogic(st, meta, a, i) ==
    IF meta.key = "rename" THEN RenameArm(st, meta, a, i)
    ELSE IF meta.key = "transform_fn" THEN TransformArm(st, meta, a, i)
    ELSE IF meta.key = "skip" THEN SkipArm(st, meta, a, i)
    ELSE IF meta.key = "into" THEN IntoArm(st, meta, a, i)
    ELSE UnknownKeyArm(st, meta, a, i)

\* IsDtoAttr taking every attribute for a dto attribute
IsDtoAttr_AnyPath(attr) == TRUE

\* attr.path().is_ident("dto")
IsDtoAttr(attr) == attr.path = "dto"

\* attr.parse_nested_meta(logic): the items left to right, stopping at the first Err
RECURSIVE FieldNestedMeta(_, _, _, _)
FieldNestedMeta(st, items, a, i) ==
    IF st.kind # "ok" \/ i > Len(items) THEN st
    ELSE FieldNestedMeta(FieldMetaLogic(st, items[i], a, i), items, a, i + 1)

\* the loop `for attr in attrs`: non-dto attributes are skipped, `?` ends the loop
RECURSIVE FieldAttrLoop(_, _, _)
FieldAttrLoop(st, attrs, a) ==
    IF st.kind # "ok" \/ a > Len(attrs) THEN st
    ELSE IF ~IsDtoAttr(attrs[a]) THEN FieldAttrLoop(st, attrs, a + 1)
    ELSE FieldAttrLoop(FieldNestedMeta(st, attrs[a].items, a, 1), attrs, a + 1)

\* SkipConflict that forgets rename
SkipConflict_ForgetsRename(cfg) ==
    cfg.skip /\ (IsSome(cfg.transform_fn) \/ cfg.into_flag)

SkipConflict(cfg) ==
    cfg.skip /\ (IsSome(cfg.rename) \/ IsSome(cfg.transform_fn) \/ cfg.into_flag)

\* TransformIntoConflict testing the wrong flag
TransformIntoConflict_WrongFlag(cfg) == IsSome(cfg.transform_fn) /\ cfg.skip

TransformIntoConflict(cfg) == IsSome(cfg.transform_fn) /\ cfg.into_flag

\* Result<FieldAttrs>: kind "ok" with cfg, kind "error" with msg and span, or a panic
FieldResult(k, c, m, sp) == [kind |-> k, cfg |-> c, msg |-> m, span |-> sp]

\* extract_dto_field_attrs returning the scanned configuration without the conflict tests
extract_dto_field_attrs_NoConflictTests(attrs) ==
    LET st == FieldAttrLoop(ScanStart, attrs, 1)
    IN  IF st.kind # "ok" THEN FieldResult(st.kind, FieldAttrsDefault, st.msg, st.span)
        ELSE FieldResult("ok", st.cfg, "", CallSite)

extract_dto_field_attrs(attrs) ==
    LET st == FieldAttrLoop(ScanStart, attrs, 1)
    IN  IF st.kind # "ok" THEN FieldResult(st.kind, FieldAttrsDefault, st.msg, st.span)
        ELSE IF SkipConflict(st.cfg)
            THEN FieldResult("error", FieldAttrsDefault, MsgSkipConflict, CallSite)
        ELSE IF TransformIntoConflict(st.cfg)
            THEN FieldResult("error", FieldAttrsDefault, MsgTransformInto, CallSite)
        ELSE FieldResult("ok", st.cfg, "", CallSite)

(***************************************************************************)
(* fn find_source_type.                                                    *)
(***************************************************************************)
SourceStart == [result |-> None, seen_from |-> FALSE, kind |-> "ok", msg |-> "", span |-> CallSite]

\* FromArm without the seen_from test: the last from wins
FromArm_LastWins(st, meta, a, i) == [st EXCEPT !.result = Some(meta.val), !.seen_from = TRUE]

FromArm(st, meta, a, i) ==
    IF st.seen_from THEN ScanErr(st, MsgDupFrom, PathSpan(a, i))
    ELSE [st EXCEPT !.result = Some(meta.val), !.seen_from = TRUE]

\* UnknownStructKeyArm that lets the key pass
UnknownStructKeyArm_Ignored(st, meta, a, i) == st

UnknownStructKeyArm(st, meta, a, i) == ScanErr(st, MsgUnknownStructKey, PathSpan(a, i))

StructMetaLogic(st, meta, a, i) ==
    IF meta.key = "from" THEN FromArm(st, meta, a, i)
    ELSE UnknownStructKeyArm(st, meta, a, i)

RECURSIVE StructNestedMeta(_, _, _, _)
StructNestedMeta(st, items, a, i) ==
    IF st.kind # "ok" \/ i > Len(items) THEN st
    ELSE StructNestedMeta(StructMetaLogic(st, items[i], a, i), items, a, i + 1)

RECURSIVE StructAttrLoop(_, _, _)
StructAttrLoop(st, attrs, a) ==
    IF st.kind # "ok" \/ a > Len(attrs) THEN st
    ELSE IF ~IsDtoAttr(attrs[a]) THEN StructAttrLoop(st, attrs, a + 1)
    ELSE StructAttrLoop(StructNestedMeta(st, attrs[a].items, a, 1), attrs, a + 1)

\* Result<Path>: kind "ok" with path, or kind "error" with msg and span
SourceResult(k, p, m, sp) == [kind |-> k, path |-> p, msg |-> m, span |-> sp]

\* find_source_type that falls back to a default path when no from was seen
find_source_type_DefaultsWhenMissing(attrs) ==
    LET st == StructAttrLoop(SourceStart, attrs, 1)
    IN  IF st.kind # "ok" THEN SourceResult("error", <<>>, st.msg, st.span)
        ELSE IF IsSome(st.result) THEN SourceResult("ok", st.result[1], "", CallSite)
        ELSE SourceResult("ok", <<"A">>, "", CallSite)

find_source_type(attrs) ==
    LET st == StructAttrLoop(SourceStart, attrs, 1)
    IN  IF st.kind # "ok" THEN SourceResult("error", <<>>, st.msg, st.span)
        ELSE IF IsSome(st.result) THEN SourceResult("ok", st.result[1], "", CallSite)
        ELSE SourceResult("error", <<>>, MsgMissingFrom, CallSite)

(***************************************************************************)
(* fn generate_field_mapping and the closure of field_map.                 *)
(***************************************************************************)
\* one element of the initializer list `Self { #(#field_map,)* }`:
\*   kind "init":          `target: <shape>` where shape is "default" (Default::default()),
\*                         "call" (f(source.src)), "into" (Into::into(source.src)) or
\*                         "direct" (source.src), spanned at span
\*   kind "compile_error": the tokens of e.to_compile_error()
InitEntry(t, sh, f, s, sp) ==
    [kind |-> "init", target |-> t, shape |-> sh, f |-> f, src |-> s, span |-> sp, msg |-> ""]

ErrorEntry(m, sp) ==
    [kind |-> "compile_error", target |-> <<>>, shape |-> "", f |-> <<>>, src |-> <<>>,
     span |-> sp, msg |-> m]

\* generate_field_mapping with the Into arm emitting the plain access
generate_field_mapping_IntoAsDirect(ident, source_ident, a, access_span) ==
    LET act == decide_action(a)
    IN  IF act.kind = "Skip" THEN InitEntry(ident, "default", <<>>, <<>>, CallSite)
        ELSE IF act.kind = "Transform" THEN InitEntry(ident, "call", act.f, source_ident, access_span)
        ELSE InitEntry(ident, "direct", <<>>, source_ident, access_span)

generate_field_mapping(ident, source_ident, a, access_span) ==
    LET act == decide_action(a)
    IN  IF act.kind = "Skip" THEN InitEntry(ident, "default", <<>>, <<>>, CallSite)
        ELSE IF act.kind = "Transform" THEN InitEntry(ident, "call", act.f, source_ident, access_span)
        ELSE IF act.kind = "Into" THEN InitEntry(ident, "into", <<>>, source_ident, access_span)
        ELSE InitEntry(ident, "direct", <<>>, source_ident, access_span)

\* SrcIdent forgetting the rename: the source field is always the target's name
SrcIdent_IgnoresRename(cfg, ident) == ident

\* cfg.rename.clone().unwrap_or_else(|| ident.clone())
SrcIdent(cfg, ident) == IF IsSome(cfg.rename) THEN cfg.rename[1] ELSE ident

\* cfg.rename_span.unwrap_or_else(|| ident.span())
AccessSpan(cfg) == IF IsSome(cfg.rename_span) THEN cfg.rename_span[1] ELSE IdentSpan

\* the closure mapped over the fields (kind "panic" when Ident::new panicked)
FieldMapEntry(f) ==
    LET r == extract_dto_field_attrs(f.attrs)
    IN  IF r.kind = "panic" THEN [ErrorEntry("", CallSite) EXCEPT !.kind = "panic"]
        ELSE IF r.kind = "error" THEN ErrorEntry(r.msg, r.span)
        ELSE generate_field_mapping(f.ident, SrcIdent(r.cfg, f.ident), r.cfg, AccessSpan(r.cfg))

(***************************************************************************)
(* fn dto_from_derive as a state machine.                                  *)
(***************************************************************************)
\* ShapeError that takes the fields of a tuple struct as well
ShapeError_TupleAccepted(shape) ==
    IF shape \in {"named", "tuple"} THEN ""
    ELSE IF shape = "unit" THEN MsgNotNamed
    ELSE MsgNotStruct

\* the match on input.data: "" for Fields::Named, or the message of the error returned
ShapeError(shape) ==
    IF shape = "named" THEN ""
    ELSE IF shape \in {"tuple", "unit"} THEN MsgNotNamed
    ELSE MsgNotStruct

(***************************************************************************)
(* The emitted conversion at run time: `fn from(source) -> Self` builds    *)
(* `Self { entries }` from a value of the source type.                     *)
(***************************************************************************)
\* a field value: a collection (tag "vec"), an Option (tag "opt", at most one item),
\* a String (tag "str") or a default (tag "default"); conv is "into" once the whole
\* value went through Into::into
Value(t, its, c) == [tag |-> t, items |-> its, conv |-> c]

Elems == {"x", "y"}

\* the source field that no target field names (types::User::password)
Password == <<"p", "w">>

\* the fields of the source type and their types: the first is a collection, the
\* others are Options, as in Source { labels: Vec<..>, maybe: Option<..> }
SourceFields == {FieldIdent(i) : i \in 1..MaxFields} \cup {Password}

SourceFieldType(n) ==
    IF n = Password THEN "str" ELSE IF n = FieldIdent(1) THEN "vec" ELSE "opt"

RECURSIVE SeqsUpTo(_)
SeqsUpTo(n) ==
    IF n = 0 THEN {<<>>}
    ELSE SeqsUpTo(n - 1) \cup {Append(q, e) : q \in {r \in SeqsUpTo(n - 1) : Len(r) = n - 1}, e \in Elems}

ValuesOf(t) ==
    IF t = "vec" THEN {Value("vec", q, "none") : q \in SeqsUpTo(MaxLen)}
    ELSE IF t = "opt" THEN {Value("opt", q, "none") : q \in SeqsUpTo(1)}
    ELSE {Value("str", <<e>>, "none") : e \in Elems}

\* the values of the source type
SourceValues ==
    {[n \in SourceFields |->
         IF n = Password THEN p ELSE IF n = FieldIdent(1) THEN v ELSE o[n]] :
        v \in ValuesOf("vec"), p \in ValuesOf("str"),
        o \in [SourceFields \ {Password, FieldIdent(1)} -> ValuesOf("opt")]}

\* impl From<SourceTag> for Tag: the conversion of one element
IntoElem(e) == IF e = "x" THEN "X" ELSE "Y"

\* v.into_iter().map(Into::into).collect()
vec_into(v) == Value("vec", [i \in 1..Len(v.items) |-> IntoElem(v.items[i])], v.conv)

\* o.map(Into::into)
opt_into(o) ==
    IF o.items = <<>> THEN Value("opt", <<>>, o.conv)
    ELSE Value("opt", <<IntoElem(o.items[1])>>, o.conv)

\* the helpers the transform_fn paths name: f is vec_into, g is opt_into
HelperArg(f) == IF f = <<"f">> THEN "vec" ELSE "opt"
CallHelper(f, v) == IF f = <<"f">> THEN vec_into(v) ELSE opt_into(v)

\* ::core::convert::Into::into on a whole field value
IntoValue(v) == [v EXCEPT !.conv = "into"]

DefaultValue == Value("default", <<>>, "none")

\* EvalInit with a direct mapping converting the elements by itself
EvalInit_MapsElements(e, s) ==
    IF e.shape = "default" THEN DefaultValue
    ELSE IF e.shape = "call" THEN CallHelper(e.f, s[e.src])
    ELSE IF e.shape = "into" THEN IntoValue(s[e.src])
    ELSE vec_into(s[e.src])

\* the value of one initializer `target: <shape>` for the source value s
EvalInit(e, s) ==
    IF e.shape = "default" THEN DefaultValue
    ELSE IF e.shape = "call" THEN CallHelper(e.f, s[e.src])
    ELSE IF e.shape = "into" THEN IntoValue(s[e.src])
    ELSE s[e.src]

\* from with a skip field filled from the source field that no target field names
from_SkipReadsPassword(es, s) ==
    [i \in 1..Len(es) |-> IF es[i].shape = "default" THEN s[Password] ELSE EvalInit(es[i], s)]

\* Self { #(#field_map,)* } evaluated for the source value s
from(es, s) == [i \in 1..Len(es) |-> EvalInit(es[i], s)]

\* rustc accepts the emitted impl: no compile_error! among the initializers, every
\* source field read exists and is moved out at most once, and a helper gets an
\* argument of its type
Compiles(es) ==
    /\ \A i \in 1..Len(es) : es[i].kind = "init"
    /\ \A i \in 1..Len(es) :
           es[i].shape # "default"
           => /\ es[i].src \in SourceFields \ {Password}
              /\ es[i].shape = "call" => SourceFieldType(es[i].src) = HelperArg(es[i].f)
              /\ \A j \in 1..Len(es) : (j # i /\ es[j].shape # "default") => es[j].src # es[i].src

VARIABLES input, pc, source_ty, entries, output, source, target

vars == <<input, pc, source_ty, entries, output, source, target>>

\* what the macro returns to the compiler:
\*   kind "none":  nothing yet        kind "error": only a compile_error! (msg at span)
\*   kind "impl":  impl From<source> for Target with the initializer list entries
\*   kind "panic": the macro panicked
NoOutput == [kind |-> "none", msg |-> "", span |-> CallSite, source |-> <<>>, entries |-> <<>>]
ErrorOutput(m, sp) == [NoOutput EXCEPT !.kind = "error", !.msg = m, !.span = sp]
ImplOutput(src, es) == [NoOutput EXCEPT !.kind = "impl", !.source = src, !.entries = es]
PanicOutput == [NoOutput EXCEPT !.kind = "panic"]

Init ==
    /\ \/ IsStructInput(input)
       \/ IsFieldInput(input, CoreItems, MaxKeys)
       \/ IsFieldInput(input, WideItems, MaxKeysWide)
       \/ IsMultiInput(input)
    /\ pc = "find_source_type"
    /\ source_ty = <<>>
    /\ entries = <<>>
    /\ output = NoOutput
    /\ source = <<>>
    /\ target = <<>>

\* let source_ty = match find_source_type(&input.attrs) { Ok(path) => path, Err(e) => return ... }
FindSourceType ==
    /\ pc = "find_source_type"
    /\ LET r == find_source_type(input.attrs)
       IN  IF r.kind = "ok"
           THEN /\ source_ty' = r.path
                /\ pc' = "select_fields"
                /\ output' = output
           ELSE /\ source_ty' = source_ty
                /\ pc' = "done"
                /\ output' = ErrorOutput(r.msg, r.span)
    /\ UNCHANGED <<input, entries, source, target>>

\* let fields = match &input.data { ... }
SelectFields ==
    /\ pc = "select_fields"
    /\ IF ShapeError(input.shape) = ""
       THEN /\ pc' = "field_map"
            /\ output' = output
       ELSE /\ pc' = "done"
            /\ output' = ErrorOutput(ShapeError(input.shape), IdentSpan)
    /\ UNCHANGED <<input, source_ty, entries, source, target>>

\* one step of the field_map iterator, driven by the repetition in quote!
MapField ==
    /\ pc = "field_map"
    /\ Len(entries) < Len(input.fields)
    /\ LET e == FieldMapEntry(input.fields[Len(entries) + 1])
       IN  IF e.kind = "panic"
           THEN /\ pc' = "done"
                /\ output' = PanicOutput
                /\ entries' = entries
           ELSE /\ pc' = pc
                /\ output' = output
                /\ entries' = Append(entries, e)
    /\ UNCHANGED <<input, source_ty, source, target>>

\* TokenStream::from(quote! { #owned_impl })
Emit ==
    /\ pc = "field_map"
    /\ Len(entries) = Len(input.fields)
    /\ pc' = "done"
    /\ output' = ImplOutput(source_ty, entries)
    /\ UNCHANGED <<input, source_ty, entries, source, target>>

\* a later call of the emitted `from` on a value of the source type, when rustc
\* accepted the impl
Convert ==
    /\ pc = "done"
    /\ output.kind = "impl"
    /\ Compiles(output.entries)
    /\ \E s \in SourceValues :
           /\ source' = s
           /\ target' = from(output.entries, s)
    /\ pc' = "converted"
    /\ UNCHANGED <<input, source_ty, entries, output>>

Next == FindSourceType \/ SelectFields \/ MapField \/ Emit \/ Convert

Spec == Init /\ [][Next]_vars

(***************************************************************************)
(* Vocabulary of the properties: what the user wrote on a field or on the  *)
(* struct, read off the input without running the macro.                   *)
(***************************************************************************)
FieldKeys == {"rename", "transform_fn", "skip", "into"}

\* the meta items of the dto attributes of an attribute list, in the order written
RECURSIVE DtoMetas(_)
DtoMetas(attrs) ==
    IF attrs = <<>> THEN <<>>
    ELSE (IF Head(attrs).path = "dto" THEN Head(attrs).items ELSE <<>>) \o DtoMetas(Tail(attrs))

Positions(attrs, k) == {j \in 1..Len(DtoMetas(attrs)) : DtoMetas(attrs)[j].key = k}

Carries(attrs, k) == Positions(attrs, k) # {}

Repeats(attrs, k) == Cardinality(Positions(attrs, k)) > 1

\* the value written with the (first) key k
ValueOf(attrs, k) == DtoMetas(attrs)[CHOOSE j \in Positions(attrs, k) : \A l \in Positions(attrs, k) : j <= l].val

Blank(v) == \A j \in 1..Len(v) : v[j] = " "

NameLike(v) == v # <<>> /\ \A j \in 1..Len(v) : v[j] # " "

\* every key is a field key, written once, with a name as the rename value
WellFormedKeys(attrs) ==
    /\ \A j \in 1..Len(DtoMetas(attrs)) : DtoMetas(attrs)[j].key \in FieldKeys
    /\ \A k \in FieldKeys : ~Repeats(attrs, k)
    /\ Carries(attrs, "rename") => NameLike(ValueOf(attrs, "rename"))

SkipWithOther(attrs) ==
    Carries(attrs, "skip")
        /\ (Carries(attrs, "rename") \/ Carries(attrs, "transform_fn") \/ Carries(attrs, "into"))

TransformWithInto(attrs) == Carries(attrs, "transform_fn") /\ Carries(attrs, "into")

\* the field-level attributes are all valid
ValidFieldAttrs(attrs) ==
    WellFormedKeys(attrs) /\ ~SkipWithOther(attrs) /\ ~TransformWithInto(attrs)

\* the struct-level attributes are all valid: one `from` and nothing else
ValidStructAttrs(attrs) ==
    /\ Cardinality(Positions(attrs, "from")) = 1
    /\ \A j \in 1..Len(DtoMetas(attrs)) : DtoMetas(attrs)[j].key = "from"

\* the shape the user asked for, and the source field name chosen for a field
WantedShape(attrs) ==
    IF Carries(attrs, "skip") THEN "default"
    ELSE IF Carries(attrs, "transform_fn") THEN "call"
    ELSE IF Carries(attrs, "into") THEN "into"
    ELSE "direct"

ChosenSource(f) ==
    IF Carries(f.attrs, "rename") THEN ValueOf(f.attrs, "rename") ELSE f.ident

\* entry e is the initializer of field f in the shape the user asked for
IsWantedInit(e, f) ==
    /\ e.kind = "init"
    /\ e.target = f.ident
    /\ e.shape = WantedShape(f.attrs)
    /\ e.f = (IF e.shape = "call" THEN ValueOf(f.attrs, "transform_fn") ELSE <<>>)
    /\ e.src = (IF e.shape = "default" THEN <<>> ELSE ChosenSource(f))

\* the fields the field_map iterator has been run on, and what it made of each: the
\* entry it produced, or a panic (which ends the derive before any entry is kept)
Attempted == 1..(Len(entries) + (IF output.kind = "panic" THEN 1 ELSE 0))

OutcomeOf(i) ==
    IF i <= Len(entries) THEN entries[i] ELSE [ErrorEntry("", CallSite) EXCEPT !.kind = "panic"]

(***************************************************************************)
(* C1: for a named-field struct whose struct-level and field-level         *)
(* attributes are all valid, the derive returns one conversion from the    *)
(* source type named by `from`, whose initializer list has exactly one     *)
(* entry per field, in declaration order, each entry being the field's     *)
(* name with Default::default() for skip, f(source.S) for transform_fn = f,*)
(* Into::into(source.S) for into, and source.S otherwise.                  *)
(***************************************************************************)
C1_ValidDeriveEmitsOneShapePerField ==
    (/\ pc = "done"
     /\ input.shape = "named"
     /\ ValidStructAttrs(input.attrs)
     /\ \A i \in 1..Len(input.fields) : ValidFieldAttrs(input.fields[i].attrs))
    => /\ output.kind = "impl"
       /\ output.source = ValueOf(input.attrs, "from")
       /\ Len(output.entries) = Len(input.fields)
       /\ \A i \in 1..Len(input.fields) : IsWantedInit(output.entries[i], input.fields[i])

\* a finished derive of two valid fields: rename with transform_fn, then skip
C1_Witness ==
    /\ pc = "done"
    /\ output.kind = "impl"
    /\ Len(input.fields) = 2
    /\ \A i \in 1..2 : ValidFieldAttrs(input.fields[i].attrs)
    /\ Carries(input.fields[1].attrs, "rename") /\ Carries(input.fields[1].attrs, "transform_fn")
    /\ Carries(input.fields[2].attrs, "skip")
    /\ output.entries[1].shape = "call" /\ output.entries[2].shape = "default"

(***************************************************************************)
(* C2: rename changes only which source field is read.  For a field with   *)
(* valid attributes the target of its entry is the field's own name, the   *)
(* source field read is the rename value when rename is written and the    *)
(* field's own name otherwise, and a field with rename (alone, with        *)
(* transform_fn, or with into) is accepted with the same shape and         *)
(* function as the same field written without the rename.                  *)
(***************************************************************************)
RECURSIVE WithoutKey(_, _)
WithoutKey(items, k) ==
    IF items = <<>> THEN <<>>
    ELSE (IF Head(items).key = k THEN <<>> ELSE <<Head(items)>>) \o WithoutKey(Tail(items), k)

WithoutRename(f) ==
    [f EXCEPT !.attrs = [a \in 1..Len(f.attrs) |->
                            [f.attrs[a] EXCEPT !.items = WithoutKey(f.attrs[a].items, "rename")]]]

C2_RenameOnlySelectsSourceField ==
    \A i \in Attempted :
        LET f == input.fields[i]
            e == OutcomeOf(i)
        IN  ValidFieldAttrs(f.attrs) =>
                /\ e.kind = "init"
                /\ e.target = f.ident
                /\ e.shape # "default" =>
                       e.src = (IF Carries(f.attrs, "rename") THEN ValueOf(f.attrs, "rename")
                                ELSE f.ident)
                /\ e.shape = FieldMapEntry(WithoutRename(f)).shape
                /\ e.f = FieldMapEntry(WithoutRename(f)).f

\* a field named a with rename = "b" and into has been mapped: it reads source.b
C2_Witness ==
    \E i \in Attempted :
        /\ ValidFieldAttrs(input.fields[i].attrs)
        /\ Carries(input.fields[i].attrs, "rename") /\ Carries(input.fields[i].attrs, "into")
        /\ OutcomeOf(i).shape = "into"
        /\ OutcomeOf(i).target = <<"a">>
        /\ OutcomeOf(i).src = <<"b">>

(***************************************************************************)
(* Vocabulary of the field-level errors.                                   *)
(***************************************************************************)
DupMsg(k) ==
    IF k = "rename" THEN MsgDupRename
    ELSE IF k = "transform_fn" THEN MsgDupTransform
    ELSE IF k = "skip" THEN MsgDupSkip
    ELSE MsgDupInto

\* rejected: a diagnostic in place of the entry, or a panic of the macro
Rejected(e) == e.kind \in {"compile_error", "panic"}

RejectedWith(e, m) == e.kind = "compile_error" /\ e.msg = m

\* position j of the dto keys holds an unknown key, a field key written before, a
\* rename whose value is empty or blank, or a rename whose value is no identifier
\* (empty, blank, or with a blank in it)
UnknownAt(attrs, j) == DtoMetas(attrs)[j].key \notin FieldKeys

RepeatAt(attrs, j) ==
    /\ DtoMetas(attrs)[j].key \in FieldKeys
    /\ \E l \in 1..(j - 1) : DtoMetas(attrs)[l].key = DtoMetas(attrs)[j].key

BlankRenameAt(attrs, j) ==
    DtoMetas(attrs)[j].key = "rename" /\ Blank(DtoMetas(attrs)[j].val)

BadRenameAt(attrs, j) ==
    DtoMetas(attrs)[j].key = "rename" /\ ~NameLike(DtoMetas(attrs)[j].val)

\* no key of the field is unknown, repeated, or a rename whose value is no identifier
NoKeyError(attrs) ==
    \A j \in 1..Len(DtoMetas(attrs)) :
        ~UnknownAt(attrs, j) /\ ~RepeatAt(attrs, j) /\ ~BadRenameAt(attrs, j)

DtoAttrCount(attrs) == Cardinality({a \in 1..Len(attrs) : attrs[a].path = "dto"})

(***************************************************************************)
(* C3 as stated: every field carrying skip together with rename,           *)
(* transform_fn or into is rejected with the skip-conflict diagnostic,     *)
(* whatever the order and the placement of the keys; skip alone is         *)
(* accepted.                                                               *)
(***************************************************************************)
C3_SkipWithOtherAlwaysSkipDiagnostic ==
    \A i \in Attempted :
        LET f == input.fields[i]
        IN  /\ SkipWithOther(f.attrs) => RejectedWith(OutcomeOf(i), MsgSkipConflict)
            /\ Positions(f.attrs, "skip") = 1..Len(DtoMetas(f.attrs)) /\ Len(DtoMetas(f.attrs)) = 1
                   => IsWantedInit(OutcomeOf(i), f)

(***************************************************************************)
(* C3 as amended: a field carrying skip together with rename, transform_fn *)
(* or into is always rejected, whatever the order and the placement of the *)
(* keys; the diagnostic is the skip-conflict one when no key of the field  *)
(* is unknown, repeated, or a rename whose value is no identifier (such a  *)
(* key is reported instead, or makes the macro panic); skip alone is       *)
(* accepted.                                                               *)
(***************************************************************************)
C3_SkipWithOtherRejected ==
    \A i \in Attempted :
        LET f == input.fields[i]
        IN  /\ SkipWithOther(f.attrs) => Rejected(OutcomeOf(i))
            /\ SkipWithOther(f.attrs) /\ NoKeyError(f.attrs)
                   => RejectedWith(OutcomeOf(i), MsgSkipConflict)
            /\ Positions(f.attrs, "skip") = 1..Len(DtoMetas(f.attrs)) /\ Len(DtoMetas(f.attrs)) = 1
                   => IsWantedInit(OutcomeOf(i), f)

\* rename in one attribute and skip in a later one: the skip conflict is reported
C3_Witness ==
    \E i \in Attempted :
        LET as == input.fields[i].attrs
        IN  /\ DtoAttrCount(as) = 2
            /\ Len(DtoMetas(as)) = 2
            /\ DtoMetas(as)[1].key = "rename" /\ DtoMetas(as)[2].key = "skip"
            /\ as[1].items # <<>> /\ as[2].items # <<>>
            /\ RejectedWith(OutcomeOf(i), MsgSkipConflict)

(***************************************************************************)
(* C4 as stated: every field carrying both transform_fn and into is        *)
(* rejected with the transform_fn/into conflict diagnostic.                *)
(***************************************************************************)
C4_TransformIntoAlwaysConflictDiagnostic ==
    \A i \in Attempted :
        TransformWithInto(input.fields[i].attrs) => RejectedWith(OutcomeOf(i), MsgTransformInto)

(***************************************************************************)
(* C4 as amended: a field carrying both transform_fn and into is always    *)
(* rejected, so no entry applies both conversions; the diagnostic is the   *)
(* transform_fn/into conflict when the field has no skip and no key of it  *)
(* is unknown, repeated, or a rename whose value is no identifier (with or *)
(* without a rename, in any key order).                                    *)
(***************************************************************************)
C4_TransformIntoRejected ==
    \A i \in Attempted :
        LET as == input.fields[i].attrs
        IN  /\ TransformWithInto(as) => Rejected(OutcomeOf(i))
            /\ TransformWithInto(as) /\ ~Carries(as, "skip") /\ NoKeyError(as)
                   => RejectedWith(OutcomeOf(i), MsgTransformInto)

\* into, then rename, then transform_fn: the conflict is reported
C4_Witness ==
    \E i \in Attempted :
        LET as == input.fields[i].attrs
        IN  /\ Len(DtoMetas(as)) = 3
            /\ DtoMetas(as)[1].key = "into"
            /\ DtoMetas(as)[2].key = "rename"
            /\ DtoMetas(as)[3].key = "transform_fn"
            /\ RejectedWith(OutcomeOf(i), MsgTransformInto)

(***************************************************************************)
(* C5 as stated: every field that repeats one of the four field keys is    *)
(* rejected with the duplicate diagnostic of that key.                     *)
(***************************************************************************)
C5_RepeatAlwaysDuplicateDiagnostic ==
    \A i \in Attempted : \A k \in FieldKeys :
        Repeats(input.fields[i].attrs, k) => RejectedWith(OutcomeOf(i), DupMsg(k))

(***************************************************************************)
(* C5 as amended: a field that repeats one of the four field keys is       *)
(* always rejected, in one attribute or over several, with equal or        *)
(* different values; the diagnostic is the duplicate diagnostic of the     *)
(* first key written a second time when no unknown key and no rename whose *)
(* value is no identifier comes before that second occurrence and it is    *)
(* not itself an empty or blank rename (that error is reported instead).   *)
(***************************************************************************)
C5_RepeatRejected ==
    \A i \in Attempted :
        LET as == input.fields[i].attrs
        IN  /\ (\E k \in FieldKeys : Repeats(as, k)) => Rejected(OutcomeOf(i))
            /\ \A j \in 1..Len(DtoMetas(as)) :
                   (/\ RepeatAt(as, j)
                    /\ ~BlankRenameAt(as, j)
                    /\ \A l \in 1..(j - 1) :
                           ~RepeatAt(as, l) /\ ~UnknownAt(as, l) /\ ~BadRenameAt(as, l))
                   => RejectedWith(OutcomeOf(i), DupMsg(DtoMetas(as)[j].key))

\* the same rename value in two attributes of one field: duplicate rename
C5_Witness ==
    \E i \in Attempted :
        LET as == input.fields[i].attrs
        IN  /\ DtoAttrCount(as) = 2
            /\ Len(DtoMetas(as)) = 2
            /\ as[1].items # <<>> /\ as[2].items # <<>>
            /\ DtoMetas(as)[1] = DtoMetas(as)[2]
            /\ DtoMetas(as)[1].key = "rename"
            /\ RejectedWith(OutcomeOf(i), MsgDupRename)

(***************************************************************************)
(* C6 as stated: every field with a key other than the four field keys in  *)
(* a dto attribute is rejected with the unknown-key diagnostic; attributes *)
(* whose path is not dto are ignored.                                      *)
(***************************************************************************)
OnlyDtoAttrs(f) == [f EXCEPT !.attrs = SelectSeq(f.attrs, LAMBDA a : a.path = "dto")]

\* the same entry but for the place of the span
SameEntry(e1, e2) == [e1 EXCEPT !.span = CallSite] = [e2 EXCEPT !.span = CallSite]

HasUnknownKey(attrs) == \E j \in 1..Len(DtoMetas(attrs)) : UnknownAt(attrs, j)

C6_UnknownKeyAlwaysUnknownDiagnostic ==
    \A i \in Attempted :
        /\ HasUnknownKey(input.fields[i].attrs) => RejectedWith(OutcomeOf(i), MsgUnknownKey)
        /\ SameEntry(OutcomeOf(i), FieldMapEntry(OnlyDtoAttrs(input.fields[i])))

(***************************************************************************)
(* C6 as amended: a field with a key other than the four field keys        *)
(* (`from` included) in a dto attribute is always rejected; the diagnostic *)
(* is the unknown-key one, naming the allowed set, when no repeated key    *)
(* and no rename whose value is no identifier comes before the first       *)
(* unknown key.                                                            *)
(* Attributes whose path is not dto are ignored: the field's entry is the  *)
(* one it has without them.                                                *)
(***************************************************************************)
C6_UnknownKeyRejected ==
    \A i \in Attempted :
        LET as == input.fields[i].attrs
        IN  /\ HasUnknownKey(as) => Rejected(OutcomeOf(i))
            /\ \A j \in 1..Len(DtoMetas(as)) :
                   (/\ UnknownAt(as, j)
                    /\ \A l \in 1..(j - 1) : ~RepeatAt(as, l) /\ ~BadRenameAt(as, l))
                   => RejectedWith(OutcomeOf(i), MsgUnknownKey)
            /\ SameEntry(OutcomeOf(i), FieldMapEntry(OnlyDtoAttrs(input.fields[i])))

\* a field with another macro's attribute and then `#[dto(from = A)]`: the other
\* attribute is passed over and `from` is reported as unknown
C6_Witness ==
    \E i \in Attempted :
        LET as == input.fields[i].attrs
        IN  /\ Len(as) = 2
            /\ as[1].path # "dto" /\ as[1].items # <<>>
            /\ as[2].path = "dto" /\ Len(as[2].items) = 1 /\ as[2].items[1].key = "from"
            /\ RejectedWith(OutcomeOf(i), MsgUnknownKey)
            /\ OutcomeOf(i).span = PathSpan(2, 1)

(***************************************************************************)
(* Vocabulary of the struct-level errors.                                  *)
(***************************************************************************)
StructKeys == DtoMetas(input.attrs)

OtherKeyAt(j) == StructKeys[j].key # "from"

SecondFromAt(j) ==
    StructKeys[j].key = "from" /\ \E l \in 1..(j - 1) : StructKeys[l].key = "from"

Finished == pc \in {"done", "converted"}

FailsWith(m) == output.kind = "error" /\ output.msg = m

(***************************************************************************)
(* C7 as stated: every struct whose dto attributes hold a key other than   *)
(* `from` is rejected with the unknown-struct-key diagnostic, and no       *)
(* conversion is emitted.                                                  *)
(***************************************************************************)
C7_OtherStructKeyAlwaysUnknownDiagnostic ==
    Finished /\ (\E j \in 1..Len(StructKeys) : OtherKeyAt(j)) => FailsWith(MsgUnknownStructKey)

(***************************************************************************)
(* C7 as amended: a struct whose dto attributes hold a key other than      *)
(* `from` (the field keys included) is always rejected and no conversion   *)
(* is emitted; the diagnostic is the unknown-struct-key one, before or     *)
(* after a valid `from`, when no second `from` comes before the first such *)
(* key (then the duplicate `from` is reported instead).                    *)
(***************************************************************************)
C7_OtherStructKeyRejected ==
    Finished =>
        /\ (\E j \in 1..Len(StructKeys) : OtherKeyAt(j)) => output.kind = "error"
        /\ \A j \in 1..Len(StructKeys) :
               OtherKeyAt(j) /\ (\A l \in 1..(j - 1) : ~SecondFromAt(l))
                   => FailsWith(MsgUnknownStructKey)

\* `#[dto(from = A, skip)]`: the field key after a valid from is reported as unknown
C7_Witness ==
    /\ Finished
    /\ Len(StructKeys) = 2
    /\ StructKeys[1].key = "from" /\ StructKeys[2].key = "skip"
    /\ FailsWith(MsgUnknownStructKey)
    /\ output.entries = <<>>

(***************************************************************************)
(* C8 as stated: every struct with a second `from` is rejected with the    *)
(* duplicate-from diagnostic.                                              *)
(***************************************************************************)
C8_SecondFromAlwaysDuplicateDiagnostic ==
    Finished /\ (\E j \in 1..Len(StructKeys) : SecondFromAt(j)) => FailsWith(MsgDupFrom)

(***************************************************************************)
(* C8 as amended: a struct with a second `from` is always rejected, in one *)
(* attribute or over several, with the same type or another; the           *)
(* diagnostic is the duplicate-from one when no key other than `from`      *)
(* comes before the second `from` (then that key is reported as unknown).  *)
(* A conversion is emitted only for a struct with a single `from`, from    *)
(* the type that `from` names, never from the last of several.             *)
(***************************************************************************)
C8_SecondFromRejected ==
    Finished =>
        /\ (\E j \in 1..Len(StructKeys) : SecondFromAt(j)) => output.kind = "error"
        /\ \A j \in 1..Len(StructKeys) :
               SecondFromAt(j) /\ (\A l \in 1..(j - 1) : ~OtherKeyAt(l)) => FailsWith(MsgDupFrom)
        /\ output.kind = "impl" =>
               /\ Cardinality(Positions(input.attrs, "from")) = 1
               /\ output.source = ValueOf(input.attrs, "from")

\* `#[dto(from = A)] #[dto(from = A)]`: the same type twice, in two attributes
C8_Witness ==
    /\ Finished
    /\ DtoAttrCount(input.attrs) = 2
    /\ Len(StructKeys) = 2
    /\ input.attrs[1].items # <<>> /\ input.attrs[2].items # <<>>
    /\ StructKeys[1].key = "from" /\ StructKeys[1] = StructKeys[2]
    /\ FailsWith(MsgDupFrom)

(***************************************************************************)
(* C9: `from` is required.  When the struct has no dto attribute or only   *)
(* empty ones, the derive fails with "Expected #[dto(from = Type)] on the  *)
(* struct." and emits no conversion; a conversion is emitted only for a    *)
(* struct that carries `from`.                                             *)
(***************************************************************************)
C9_MissingFromRejected ==
    Finished =>
        /\ StructKeys = <<>> => FailsWith(MsgMissingFrom) /\ output.entries = <<>>
        /\ output.kind = "impl" => Carries(input.attrs, "from")

\* a named-field struct with an empty `#[dto()]` and nothing else
C9_Witness ==
    /\ Finished
    /\ input.shape = "named"
    /\ StructKeys = <<>>
    /\ \E a \in 1..Len(input.attrs) : input.attrs[a].path = "dto"
    /\ FailsWith(MsgMissingFrom)

(***************************************************************************)
(* C10 as stated: every derive on a tuple or unit struct is rejected with  *)
(* "DtoFrom only supports named-field structs." and every derive on an     *)
(* enum or union with "DtoFrom only supports structs.".                    *)
(***************************************************************************)
C10_ShapeAlwaysShapeDiagnostic ==
    Finished =>
        /\ input.shape \in {"tuple", "unit"} => FailsWith(MsgNotNamed)
        /\ input.shape \in {"enum", "union"} => FailsWith(MsgNotStruct)

(***************************************************************************)
(* C10 as amended: a derive on anything but a named-field struct is always *)
(* rejected and no conversion is emitted; when the struct-level attributes *)
(* are valid the diagnostic is "DtoFrom only supports named-field          *)
(* structs." for a tuple or unit struct and "DtoFrom only supports         *)
(* structs." for an enum or union (otherwise the struct-level attribute    *)
(* error, which is looked for first, is reported).                         *)
(***************************************************************************)
C10_UnsupportedShapeRejected ==
    Finished =>
        /\ input.shape # "named" => output.kind = "error" /\ output.entries = <<>>
        /\ ValidStructAttrs(input.attrs) /\ input.shape \in {"tuple", "unit"}
               => FailsWith(MsgNotNamed)
        /\ ValidStructAttrs(input.attrs) /\ input.shape \in {"enum", "union"}
               => FailsWith(MsgNotStruct)

\* a tuple struct with a valid from
C10_Witness ==
    /\ Finished
    /\ input.shape = "tuple"
    /\ ValidStructAttrs(input.attrs)
    /\ FailsWith(MsgNotNamed)

(***************************************************************************)
(* C11 as stated: every field with a rename whose value is empty or only   *)
(* whitespace, at any occurrence of rename, gets the diagnostic            *)
(* "'rename' cannot be empty" and no mapping.                              *)
(***************************************************************************)
HasBlankRename(attrs) == \E j \in 1..Len(DtoMetas(attrs)) : BlankRenameAt(attrs, j)

C11_BlankRenameAlwaysEmptyDiagnostic ==
    \A i \in Attempted :
        HasBlankRename(input.fields[i].attrs) => RejectedWith(OutcomeOf(i), MsgEmptyRename)

(***************************************************************************)
(* C11 as amended: a field with a rename whose value is empty or only      *)
(* whitespace is always rejected and gets no mapping; the diagnostic is    *)
(* "'rename' cannot be empty", anchored at that literal, for the first     *)
(* such rename when no unknown key, no repeated key and no rename whose    *)
(* value is no identifier comes before it.  This includes a second rename: *)
(* the emptiness test is made before the duplicate test.                   *)
(***************************************************************************)
C11_BlankRenameRejected ==
    \A i \in Attempted :
        LET as == input.fields[i].attrs
        IN  /\ HasBlankRename(as) => Rejected(OutcomeOf(i))
            /\ \A j \in 1..Len(DtoMetas(as)) :
                   (/\ BlankRenameAt(as, j)
                    /\ \A l \in 1..(j - 1) :
                           ~UnknownAt(as, l) /\ ~RepeatAt(as, l) /\ ~BadRenameAt(as, l))
                   => /\ RejectedWith(OutcomeOf(i), MsgEmptyRename)
                      /\ OutcomeOf(i).span[1] = "lit"

\* `#[dto(rename = "b", rename = " ")]`: the second rename is reported as empty
C11_Witness ==
    \E i \in Attempted :
        LET as == input.fields[i].attrs
        IN  /\ Len(DtoMetas(as)) = 2
            /\ DtoMetas(as)[1] = Meta("rename", <<"b">>)
            /\ DtoMetas(as)[2] = Meta("rename", <<" ">>)
            /\ RejectedWith(OutcomeOf(i), MsgEmptyRename)

(***************************************************************************)
(* C12: every diagnostic is anchored at the source span of the offending   *)
(* item, key or literal.  A field diagnostic points at a key path or a     *)
(* literal inside one of that field's own attributes; a struct-level       *)
(* diagnostic points at a key of the struct's attributes or at the item's  *)
(* name, and the missing-`from` diagnostic, which has no token to point    *)
(* at, at the derive on the item.                                          *)
(***************************************************************************)
AnchoredInAttrs(sp, attrs) ==
    /\ sp[1] \in {"lit", "path"}
    /\ sp[2] \in 1..Len(attrs)
    /\ sp[3] \in 1..Len(attrs[sp[2]].items)

C12_EveryDiagnosticAtOffendingToken ==
    /\ \A i \in 1..Len(entries) :
           entries[i].kind = "compile_error"
           => AnchoredInAttrs(entries[i].span, input.fields[i].attrs)
    /\ output.kind = "error"
       => \/ AnchoredInAttrs(output.span, input.attrs)
          \/ output.span = IdentSpan
          \/ output.msg = MsgMissingFrom /\ output.span = CallSite

(***************************************************************************)
(* C13: the conversion hands each mapped source field value through as a   *)
(* whole and exactly once.  For every converted source value and every     *)
(* target field: a direct mapping yields the value of the chosen source    *)
(* field unchanged (same length, same elements in the same order); a       *)
(* collection mapped with the element-wise helper has the same length and  *)
(* holds the converted elements in the same order; an Option mapped with   *)
(* the element-wise helper is None for None and Some of the converted      *)
(* payload for Some; `into` yields Into::into of the whole value; and no   *)
(* source field is read by two target fields.                              *)
(***************************************************************************)
Converted == pc = "converted"

C13_WitnessOption ==
    /\ Converted
    /\ Len(input.fields) = 1
    /\ WantedShape(input.fields[1].attrs) = "call"
    /\ source[ChosenSource(input.fields[1])].tag = "opt"
    /\ source[ChosenSource(input.fields[1])].items = None
    /\ target[1].items = None

(***************************************************************************)
(* C14: the converted value depends only on the source fields that some    *)
(* non-skipped target field names.  Every source value that agrees with    *)
(* the converted one on those fields (and may differ elsewhere, as in      *)
(* `password`) yields the same target; a skip field is Default::default()  *)
(* for every source value.                                                 *)
(***************************************************************************)
\* the source fields named by the non-skipped target fields of the input
NamedSourceFields ==
    {ChosenSource(input.fields[i]) :
        i \in {k \in 1..Len(input.fields) : WantedShape(input.fields[k].attrs) # "default"}}

AgreeOn(s1, s2, ns) == \A n \in ns : s1[n] = s2[n]

C14_TargetDependsOnlyOnNamedFields ==
    Converted =>
        /\ \A s2 \in SourceValues :
               AgreeOn(source, s2, NamedSourceFields) => from(output.entries, s2) = target
        /\ \A i \in 1..Len(input.fields) :
               WantedShape(input.fields[i].attrs) = "default"
               => \A s2 \in SourceValues : from(output.entries, s2)[i] = DefaultValue

\* a directly mapped field next to a skip field: the target is the same for another
\* password and for another value of the field that only the skip field could name
C14_Witness ==
    /\ Converted
    /\ Len(input.fields) = 2
    /\ WantedShape(input.fields[1].attrs) = "direct"
    /\ WantedShape(input.fields[2].attrs) = "default"
    /\ target[2] = DefaultValue
    /\ \E s2 \in SourceValues :
           /\ s2[Password] # source[Password]
           /\ s2[FieldIdent(2)] # source[FieldIdent(2)]
           /\ s2[FieldIdent(1)] = source[FieldIdent(1)]
           /\ from(output.entries, s2) = target

(***************************************************************************)
(* C15: a struct-level error (bad or missing `from`, unsupported shape)    *)
(* makes the derive return only the diagnostic, with no conversion; a      *)
(* field-level attribute error does not abort the derive: the conversion   *)
(* is emitted with one entry per field, the entry of each failing field    *)
(* being that field's diagnostic and the entry of every other field the    *)
(* initializer it would have without the failing fields.                   *)
(***************************************************************************)
StructLevelError == ~ValidStructAttrs(input.attrs) \/ input.shape # "named"

C15_FieldErrorsDoNotAbort ==
    Finished =>
        IF StructLevelError
        THEN output.kind = "error" /\ output.entries = <<>>
        ELSE /\ output.kind = "impl"
             /\ Len(output.entries) = Len(input.fields)
             /\ \A i \in 1..Len(input.fields) :
                    IF ValidFieldAttrs(input.fields[i].attrs)
                    THEN IsWantedInit(output.entries[i], input.fields[i])
                    ELSE output.entries[i].kind = "compile_error"

(***************************************************************************)
(* C16: every field configuration that extract_dto_field_attrs accepts has *)
(* at most one of skip, transform_fn and into set, and no rename when skip *)
(* is set; so decide_action never chooses between two set actions, and the *)
(* emitted shape is the one the user wrote.                                *)
(***************************************************************************)
SetActions(cfg) ==
    {k \in {"Skip", "Transform", "Into"} :
        \/ k = "Skip" /\ cfg.skip
        \/ k = "Transform" /\ IsSome(cfg.transform_fn)
        \/ k = "Into" /\ cfg.into_flag}

ShapeOfAction(k) ==
    IF k = "Skip" THEN "default"
    ELSE IF k = "Transform" THEN "call"
    ELSE IF k = "Into" THEN "into"
    ELSE "direct"

C16_AcceptedConfigHasOneAction ==
    \A i \in 1..Len(entries) :
        LET as == input.fields[i].attrs
            r == extract_dto_field_attrs(as)
        IN  r.kind = "ok"
            => /\ Cardinality(SetActions(r.cfg)) <= 1
               /\ r.cfg.skip => r.cfg.rename = None
               /\ SetActions(r.cfg) = {} => decide_action(r.cfg).kind = "Direct"
               /\ \A k \in SetActions(r.cfg) : decide_action(r.cfg).kind = k
               /\ entries[i].kind = "init"
               /\ entries[i].shape = ShapeOfAction(decide_action(r.cfg).kind)
               /\ entries[i].shape = WantedShape(as)

\* an accepted field with rename and transform_fn: one action set, shape "call"
C16_Witness ==
    \E i \in 1..Len(entries) :
        LET r == extract_dto_field_attrs(input.fields[i].attrs)
        IN  /\ r.kind = "ok"
            /\ IsSome(r.cfg.rename)
            /\ SetActions(r.cfg) = {"Transform"}
            /\ entries[i].shape = "call"

(***************************************************************************)
(* C17: validation of one field reports exactly one diagnostic, chosen by  *)
(* a fixed order.  The keys are examined left to right, attribute by       *)
(* attribute; the first unknown key, empty rename or repeated key ends the *)
(* examination with its diagnostic; the conflict tests run only when every *)
(* key was examined without error, the skip conflict before the            *)
(* transform_fn/into conflict.  The diagnostic of a field is determined by *)
(* the keys of that field alone: a key of another field never makes a key  *)
(* a duplicate or a conflict.                                              *)
(***************************************************************************)
ErrorAt(attrs, j) == UnknownAt(attrs, j) \/ BlankRenameAt(attrs, j) \/ RepeatAt(attrs, j)

KeyErrorMsg(attrs, j) ==
    IF UnknownAt(attrs, j) THEN MsgUnknownKey
    ELSE IF BlankRenameAt(attrs, j) THEN MsgEmptyRename
    ELSE DupMsg(DtoMetas(attrs)[j].key)

\* the one diagnostic the fixed order selects for the keys of a field, "" for none
ExpectedDiagnostic(attrs) ==
    LET errs == {j \in 1..Len(DtoMetas(attrs)) : ErrorAt(attrs, j)}
    IN  IF errs # {} THEN KeyErrorMsg(attrs, CHOOSE j \in errs : \A l \in errs : j <= l)
        ELSE IF SkipWithOther(attrs) THEN MsgSkipConflict
        ELSE IF TransformWithInto(attrs) THEN MsgTransformInto
        ELSE ""

C17_OneDiagnosticInFixedOrder ==
    \A i \in Attempted :
        LET m == ExpectedDiagnostic(input.fields[i].attrs)
        IN  IF m = "" THEN OutcomeOf(i).kind = "init"
            ELSE RejectedWith(OutcomeOf(i), m)

====
